---- MODULE Spec2Model ----
(***************************************************************************)
(* Multi-Doc-Chat: the FAISS index manager (FaissManager) with its dedup   *)
(* ledger, the conversational chain (ConversationalRAG), and the ingestor  *)
(* (ChatIngestor) with the upload and loading utilities it calls.          *)
(*                                                                         *)
(* Conventions.  Python strings are sequences of one-character strings, so *)
(* that concatenation (the "src::raw_id" key) is computed, not assumed.    *)
(* Python's None is the sentinel None.  A Python exception is an outcome   *)
(* record; statements of the source that raise for every operand (a        *)
(* containment test on None, a lookup of a key the dict never holds, a     *)
(* read of an attribute that is never assigned) raise in the model too.    *)
(* Calls into the vector-store library, the embedding service and the LLM  *)
(* are external: each may succeed or raise, chosen with \E.                *)
(* Module import is outside the model: each function body is modelled as   *)
(* written, on a receiver holding the attributes its class assigns.        *)
(***************************************************************************)
EXTENDS Integers, Sequences, FiniteSets, TLC

\* ------------------------------------------------------------- bounds
\* longest batch of chunks handed to load_or_create / add_documents
MaxBatch == 2
\* longest batch of uploaded files or of paths
MaxUpload == 2

\* ------------------------------------------------------------- values
None == <<"#None">>

\* metadata of a chunk: the keys _fingerprint reads (an absent key is None)
Metadata(src, fp, rid) == [source |-> src, file_path |-> fp, raw_id |-> rid]
EmptyMetadata == Metadata(None, None, None)

\* langchain Document: page_content + metadata
Document(t, md) == [page_content |-> t, metadata |-> md]
\* two chunks of one file: different texts, the same source (a chunk without
\* a source arises when load_or_create is given no metadatas)
Chunks == { Document(<<"a">>, Metadata(<<"f">>, None, None)),
            Document(<<"b">>, Metadata(<<"f">>, None, None)) }

SeqsUpTo(S, n) == UNION { [1..k -> S] : k \in 0..n }
Batches == SeqsUpTo(Chunks, MaxBatch)

\* Python truthiness of a string-or-None value
Truthy(x) == x # None /\ x # <<>>

\* hashlib.sha256(text).hexdigest(): an injective tag of the text (collisions
\* of SHA-256 are outside the model)
Sha256Hex(text) == <<"#sha256">> \o text

\* _fingerprint hashing the text whatever the metadata
_fingerprint_text_only(text, md) == Sha256Hex(text)

\* _fingerprint without the fallback to file_path
_fingerprint_no_file_path(text, md) ==
    IF md.source # None
    THEN md.source \o <<":", ":">> \o (IF md.raw_id = None THEN <<>> ELSE md.raw_id)
    ELSE Sha256Hex(text)

\* FaissManager._fingerprint
_fingerprint(text, md) ==
    LET src == IF Truthy(md.source) THEN md.source ELSE md.file_path
        rid == md.raw_id
    IN  IF src # None
        THEN src \o <<":", ":">> \o (IF rid = None THEN <<>> ELSE rid)
        ELSE Sha256Hex(text)

\* ------------------------------------------------------------- outcomes
\* a string too long to spell out: its length and what it says
Str(n, body) == [isNone |-> FALSE, len |-> n, body |-> body]
NoneStr == [isNone |-> TRUE, len |-> 0, body |-> ""]

\* the outcome of a call: a return (with a count or an answer) or a raise
Return(v)       == [kind |-> "return", exc |-> "", msg |-> "", count |-> v, answer |-> NoneStr]
ReturnNone      == [kind |-> "return", exc |-> "", msg |-> "", count |-> -1, answer |-> NoneStr]
ReturnAnswer(a) == [kind |-> "return", exc |-> "", msg |-> "", count |-> -1, answer |-> a]
Raise(e, m)     == [kind |-> "raise", exc |-> e, msg |-> m, count |-> -1, answer |-> NoneStr]
NoOutcome       == [kind |-> "none", exc |-> "", msg |-> "", count |-> -1, answer |-> NoneStr]

MsgNoIndexNoData == "No existing FAISS index and no data to create one"
MsgCallLoadFirst == "Call load_or_create() before add_documents_idempotent()."
MsgNoneNotIterable == "argument of type 'NoneType' is not iterable"
MsgNoModelLoader == "'FaissManager' object has no attribute 'model_loader'"

\* ------------------------------------------------------------- state
VARIABLES
    writers, \* the FaissManager instances that share the index directory
    disk,   \* the index directory: index.faiss, index.pkl, ingested_meta.json
    fm,     \* the FaissManager receiver: self.vs and self._meta
    rag,    \* the ConversationalRAG instance: self.retriever and self.chain
    tree,   \* the directories made, and the index directory under each path
    ing,    \* the ChatIngestor instances
    call    \* the last call: operation, arguments, outcome, state before it

\* the in-memory handle self.vs: None, or a FAISS store holding docs in order
NoHandle == [loaded |-> FALSE, docs |-> <<>>]
Handle(docs) == [loaded |-> TRUE, docs |-> docs]

\* the ledger dict as FaissManager.__init__ creates it: {"rows": {}}
EmptyMeta == [rows |-> {}]

NoMetaFile == [exists |-> FALSE, valid |-> TRUE, rows |-> {}]
EmptyDir == [faiss |-> FALSE, pkl |-> FALSE, store |-> <<>>, meta |-> NoMetaFile]

NoArg == [isNone |-> TRUE, val |-> <<>>]
Arg(v) == [isNone |-> FALSE, val |-> v]

\* the retriever a chain is bound to: None, the one handed to the constructor,
\* or the one load_retriever_from_faiss made with its search configuration
NoKw == [k |-> "absent", fetch_k |-> "absent", lambda_mult |-> "absent"]
NoRetriever == [bound |-> FALSE, origin |-> "none", search_type |-> "none", kw |-> NoKw]
Retriever(origin, st, kw) == [bound |-> TRUE, origin |-> origin, search_type |-> st, kw |-> kw]

\* self.chain: None, or the pipeline assembled over a retriever
NoChain == [built |-> FALSE, over |-> NoRetriever]
Chain(r) == [built |-> TRUE, over |-> r]

NoRag == [alive |-> FALSE, retriever |-> NoRetriever, chain |-> NoChain]

\* what the pipeline (self.chain.invoke) gave: nothing yet, a raise, or a value
NoPipe == [kind |-> "none", answer |-> NoneStr]

\* the dict invoke hands to the pipeline: nothing yet
NoPayload == [input |-> None, chat_history |-> <<>>]

\* the splitter's window: chunk_size and chunk_overlap, or none given
NoWindow == [set |-> FALSE, chunk_size |-> 0, chunk_overlap |-> 0]
Window(chunk_size, chunk_overlap) ==
    [set |-> TRUE, chunk_size |-> chunk_size, chunk_overlap |-> chunk_overlap]

NoCall ==
    [op |-> "none", texts |-> NoArg, metadatas |-> NoArg, docs |-> <<>>,
     path |-> "none", out |-> NoOutcome,
     preDisk |-> EmptyDir, preFm |-> [vs |-> NoHandle, meta |-> EmptyMeta],
     preRag |-> NoRag, retrieverArg |-> NoRetriever, index_path |-> "none",
     search_type |-> "none", custom |-> NoKw, pipelineCalled |-> FALSE, pipe |-> NoPipe,
     payload |-> NoPayload, rewritten |-> None, retrieved |-> <<>>,
     uploaded |-> <<>>, paths |-> NoArg, ret |-> NoArg, written |-> <<>>,
     ext |-> "none", slot |-> "none", trace |-> <<>>,
     text |-> None, md |-> EmptyMetadata, fp |-> None,
     prevText |-> None, prevMd |-> EmptyMetadata, prevFp |-> None,
     chunking |-> NoWindow, window |-> NoWindow]

\* a call on the manager
MCall(op, texts, metadatas, docs, path, out, d, m) ==
    [NoCall EXCEPT !.op = op, !.texts = texts, !.metadatas = metadatas, !.docs = docs,
                   !.path = path, !.out = out, !.preDisk = d, !.preFm = m]

\* FaissManager.__init__, lines 131-138: the ledger read from ingested_meta.json
LoadMeta(d) ==
    IF d.meta.exists /\ d.meta.valid /\ d.meta.rows # {}
    THEN [rows |-> d.meta.rows]
    ELSE EmptyMeta

\* _exists taking one artifact for an index
_exists_either(d) == d.faiss \/ d.pkl

\* FaissManager._exists
_exists(d) == d.faiss /\ d.pkl

\* the attributes FaissManager.__init__ assigns to a manager over directory d:
\* self._meta (lines 132-138) and self.vs = None (line 142).  The constructor
\* as written raises before it returns (FaissManagerInit below), so the methods
\* are modelled on a receiver holding these attributes.
NewReceiver(d) == [vs |-> NoHandle, meta |-> LoadMeta(d)]

\* ------------------------------------------------------------- FaissManager
\* FAISS.from_texts(texts, embedding, metadatas=metadatas or []): document i
\* carries metadatas[i] when metadatas is non-empty, {} otherwise
FromTexts(texts, metadatas) ==
    [i \in 1..Len(texts.val) |->
        Document(texts.val[i],
                 IF metadatas.isNone \/ metadatas.val = <<>>
                 THEN EmptyMetadata ELSE metadatas.val[i])]

\* FAISS.save_local(dir): writes index.faiss, then index.pkl (which holds the
\* documents).  w = "both": both written; "faiss": the write stopped after
\* index.faiss; "none": nothing written
SaveLocal(d, docs, w) ==
    CASE w = "both"  -> [d EXCEPT !.faiss = TRUE, !.pkl = TRUE, !.store = docs]
      [] w = "faiss" -> [d EXCEPT !.faiss = TRUE]
      [] OTHER       -> d

\* FaissManager._save_meta: ingested_meta.json := json.dumps(self._meta)
_save_meta(d, meta) ==
    [d EXCEPT !.meta = [exists |-> TRUE, valid |-> TRUE,
                        rows |-> IF "rows" \in DOMAIN meta THEN meta.rows ELSE {}]]

\* `texts is None` in place of `not texts`
NotTexts_NoneOnly(texts) == texts.isNone

\* Python `not texts`: None and the empty list are falsy
NotTexts(texts) == texts.isNone \/ texts.val = <<>>

\* the external calls of load_or_create: all succeed ("ok"), FAISS.load_local
\* raises, embedding the texts raises, or save_local raises after writing
\* index.faiss alone or nothing
LoadExt == {"ok", "load fails", "embed fails", "save wrote faiss", "save wrote none"}

\* what save_local wrote under an external outcome
Wrote(ext) ==
    CASE ext = "save wrote faiss" -> "faiss"
      [] ext = "save wrote none"  -> "none"
      [] OTHER                    -> "both"

\* FaissManager.load_or_create: result [fm, disk, out, path]
load_or_create(self, d, texts, metadatas, ext) ==
    IF _exists(d)
    THEN IF ext # "load fails"
         THEN [fm |-> [self EXCEPT !.vs = Handle(d.store)], disk |-> d,
               out |-> Return(0), path |-> "load"]
         ELSE [fm |-> self, disk |-> d,
               out |-> Raise("RuntimeError", "FAISS.load_local failed"), path |-> "load"]
    ELSE IF NotTexts(texts)
    THEN [fm |-> self, disk |-> d,
          out |-> Raise("ProjectException", MsgNoIndexNoData), path |-> "none"]
    ELSE IF ext = "embed fails"
    THEN [fm |-> self, disk |-> d,
          out |-> Raise("RuntimeError", "embedding failed"), path |-> "create"]
    ELSE LET docs == FromTexts(texts, metadatas)
             self1 == [self EXCEPT !.vs = Handle(docs)]
         IN  IF Wrote(ext) = "both"
             THEN [fm |-> self1, disk |-> SaveLocal(d, docs, "both"),
                   out |-> Return(0), path |-> "create"]
             ELSE [fm |-> self1, disk |-> SaveLocal(d, docs, Wrote(ext)),
                   out |-> Raise("OSError", "save_local failed"), path |-> "create"]

\* line 171, `self.vs in None`: a containment test whose right operand is None
\* raises TypeError whatever the left operand is
InNone(x) == [raised |-> TRUE, value |-> FALSE]

\* line 174, `new_docs = List[Document] = []`: the second target is an item
\* assignment on typing.List, which raises TypeError
AssignListDocument == [raised |-> TRUE]

\* lines 176-181: the dedup loop over docs; `self._meta["raws"]` raises KeyError
\* when the ledger dict has no key "raws"
RECURSIVE AddLoop(_, _, _)
AddLoop(meta, docs, new_docs) ==
    IF docs = <<>>
    THEN [raised |-> FALSE, meta |-> meta, new_docs |-> new_docs]
    ELSE LET dd  == Head(docs)
             key == _fingerprint(dd.page_content, dd.metadata)
         IN  IF "raws" \notin DOMAIN meta
             THEN [raised |-> TRUE, meta |-> meta, new_docs |-> new_docs]
             ELSE IF key \in meta["raws"]
             THEN AddLoop(meta, Tail(docs), new_docs)
             ELSE AddLoop([meta EXCEPT !["raws"] = @ \cup {key}], Tail(docs),
                          Append(new_docs, dd))

\* the external calls of add_documents: all succeed ("ok"), vs.add_documents
\* raises, save_local raises after writing index.faiss alone or nothing, or
\* the process dies between save_local (line 185) and _save_meta (line 186)
AddExt == {"ok", "add fails", "save wrote faiss", "save wrote none",
           "crash after save_local"}

\* FaissManager.add_documents: result [fm, disk, out]
add_documents(self, d, docs, ext) ==
    LET test == InNone(self.vs)
    IN  IF test.raised
        THEN [fm |-> self, disk |-> d, out |-> Raise("TypeError", MsgNoneNotIterable)]
        ELSE IF test.value
        THEN [fm |-> self, disk |-> d, out |-> Raise("RuntimeError", MsgCallLoadFirst)]
        ELSE IF AssignListDocument.raised
        THEN [fm |-> self, disk |-> d,
              out |-> Raise("TypeError", "'typing.List' item assignment")]
        ELSE LET loop == AddLoop(self.meta, docs, <<>>)
                 self1 == [self EXCEPT !.meta = loop.meta]
             IN  IF loop.raised
                 THEN [fm |-> self1, disk |-> d, out |-> Raise("KeyError", "'raws'")]
                 ELSE IF loop.new_docs = <<>>
                 THEN [fm |-> self1, disk |-> d, out |-> Return(0)]
                 ELSE IF ext = "add fails"
                 THEN [fm |-> self1, disk |-> d,
                       out |-> Raise("RuntimeError", "vs.add_documents failed")]
                 ELSE LET self2 == [self1 EXCEPT
                                      !.vs = Handle(self1.vs.docs \o loop.new_docs)]
                      IN  IF Wrote(ext) # "both"
                          THEN [fm |-> self2,
                                disk |-> SaveLocal(d, self2.vs.docs, Wrote(ext)),
                                out |-> Raise("OSError", "save_local failed")]
                          ELSE IF ext = "crash after save_local"
                          THEN [fm |-> self2,
                                disk |-> SaveLocal(d, self2.vs.docs, "both"),
                                out |-> Raise("crash", "process died")]
                          ELSE [fm |-> self2,
                                disk |-> _save_meta(SaveLocal(d, self2.vs.docs, "both"),
                                                    self2.meta),
                                out |-> Return(Len(loop.new_docs))]

\* build_retriver, lines 94-102: one ingestion of the chunks S into directory
\* d by a manager over it, load_or_create(texts, metas) then add_documents(S),
\* no external call failing (the retry of lines 99-100 then repeats the same
\* raise: load_or_create changed nothing)
IngestOnce(d, S) ==
    LET texts == Arg([i \in 1..Len(S) |-> S[i].page_content])
        metas == Arg([i \in 1..Len(S) |-> S[i].metadata])
        l == load_or_create(NewReceiver(d), d, texts, metas, "ok")
    IN  IF l.out.kind = "raise"
        THEN [fm |-> l.fm, disk |-> l.disk, out |-> l.out]
        ELSE add_documents(l.fm, l.disk, S, "ok")

\* ------------------------------------------------------------- actions
\* FaissManager(index_dir, model_loader): lines 128-140 run (the directory
\* exists already, the ledger is read), then line 141 reads self.model_loader,
\* which no line assigns (line 140 assigns self.medel_loader): AttributeError
FaissManagerInit ==
    /\ call' = MCall("FaissManager", NoArg, NoArg, <<>>, "none",
                     Raise("AttributeError", MsgNoModelLoader), disk, fm)
    /\ UNCHANGED <<disk, fm, rag, tree, ing, writers>>

\* arguments of load_or_create: texts None or a list; metadatas None or the
\* list of the same chunks' metadata, as build_retriver passes them
LoadOrCreate ==
    \E b \in Batches, tNone \in BOOLEAN, mNone \in BOOLEAN, ext \in LoadExt :
        LET texts == IF tNone THEN NoArg
                     ELSE Arg([i \in 1..Len(b) |-> b[i].page_content])
            metas == IF mNone THEN NoArg
                     ELSE Arg([i \in 1..Len(b) |-> b[i].metadata])
            r == load_or_create(fm, disk, texts, metas, ext)
        IN  /\ (tNone => b = <<>>)
            /\ fm' = r.fm
            /\ disk' = r.disk
            /\ call' = MCall("load_or_create", texts, metas, <<>>, r.path, r.out, disk, fm)
            /\ UNCHANGED <<rag, tree, ing, writers>>

AddDocuments ==
    \E docs \in Batches, ext \in AddExt :
        LET r == add_documents(fm, disk, docs, ext)
        IN  /\ fm' = r.fm
            /\ disk' = r.disk
            /\ call' = [MCall("add_documents", NoArg, NoArg, docs, "none", r.out,
                               disk, fm)
                           EXCEPT !.ext = ext]
            /\ UNCHANGED <<rag, tree, ing, writers>>

\* ------------------------------------------------------------- ConversationalRAG
\* ChatAnswer.answer: Field(min_length=1, max_length=4096)
MinAnswerLen == 1
MaxAnswerLen == 4096

\* the answers the pipeline can give: None, or a string of a length around the
\* limits of ChatAnswer
AnswerLens == {0, MinAnswerLen, MaxAnswerLen, MaxAnswerLen + 1}
Answers == {NoneStr} \cup { Str(n, "llm answer") : n \in AnswerLens }
PipeResults == {[kind |-> "raise", answer |-> NoneStr]}
               \cup { [kind |-> "value", answer |-> a] : a \in Answers }

Fallback == Str(20, "No answer generated.")

MsgChainNotInit == "RAG chain not initialized. Call load_retriever_from_faiss() before invoke()."
MsgInvocation == "Invocation error in ConversationalRAG"
MsgBuildChain == "Failed to build LCEL chain"
MsgLlmLoading == "LLM loading error in ConversationalRAG"
MsgNoRetriever == "No retriever set before building chain"

\* `answer is None` in place of `not answer`
NotAnswer_NoneOnly(a) == a.isNone

\* Python `not answer`: None and the empty string are falsy
NotAnswer(a) == a.isNone \/ a.len = 0

\* ChatAnswer without max_length
ChatAnswerValid_NoMax(a) == MinAnswerLen <= a.len

\* ChatAnswer(answer=...): does the string pass the model's length constraints
ChatAnswerValid(a) == MinAnswerLen <= a.len /\ a.len <= MaxAnswerLen

\* ConversationalRAG.invoke, lines 117-140: the body of the try block;
\* result [out, called] (called: was self.chain.invoke reached)
InvokeBody(self, pipe) ==
    IF ~self.chain.built
    THEN [out |-> Raise("ProjectException", MsgChainNotInit), called |-> FALSE]
    ELSE IF pipe.kind = "raise"
    THEN [out |-> Raise("RuntimeError", "pipeline failed"), called |-> TRUE]
    ELSE IF NotAnswer(pipe.answer)
    THEN [out |-> ReturnAnswer(Fallback), called |-> TRUE]
    ELSE IF ~ChatAnswerValid(pipe.answer)
    THEN [out |-> Raise("ProjectException", "ValidationError"), called |-> TRUE]
    ELSE [out |-> ReturnAnswer(pipe.answer), called |-> TRUE]

\* ConversationalRAG.invoke: whatever the try block raises (ProjectException
\* included) is caught at line 141 and replaced by the fixed invocation error
invoke(self, pipe) ==
    LET body == InvokeBody(self, pipe)
    IN  IF body.out.kind = "raise"
        THEN [body EXCEPT !.out = Raise("ProjectException", MsgInvocation)]
        ELSE body

\* invoke, lines 121-122: chat_history = chat_history or [];
\* payload = {"input": user_input, "chat_history": chat_history}
Payload(user_input, chat_history) ==
    [input |-> user_input,
     chat_history |-> IF chat_history = None THEN <<>> ELSE chat_history]

\* prompt_library.py: the variables the two prompt templates read
ContextualizeVars == {"chat_history", "input"}
ContextQuestionVars == {"context", "chat_history", "input"}

\* _format_docs: "\n\n".join of the page_content of the retrieved documents
RECURSIVE _format_docs(_)
_format_docs(docs) ==
    IF docs = <<>> THEN <<>>
    ELSE IF Len(docs) = 1 THEN docs[1].page_content
    ELSE docs[1].page_content \o <<"\n", "\n">> \o _format_docs(Tail(docs))

\* _build_lcel_chain, lines 167-170: the dict the rewrite stage maps the
\* payload to before contextualize_prompt
RewriteInput(payload) ==
    [input |-> payload.input, chat_histry |-> payload.chat_history]

\* _build_lcel_chain, lines 178-183: the dict the answer stage maps the
\* payload to before question_prompt
AnswerInput(payload, context) ==
    [context |-> context, input |-> payload.input,
     chat_histroy |-> payload.chat_history]

\* _build_lcel_chain, lines 167-187: the stages of one pipeline run in the
\* order of the composition, each with what it is handed.  rewritten: what
\* the rewrite stage gave; retrieved: the documents the retriever gave (what
\* a prompt, the LLM or the retriever does with its input is the library's)
PipelineFlow(payload, rewritten, retrieved) ==
    <<[stage |-> "question_rewrite", input |-> RewriteInput(payload)],
      [stage |-> "retriever", input |-> rewritten],
      [stage |-> "answer", input |-> AnswerInput(payload, _format_docs(retrieved))]>>

\* what the caller asks, the histories it passes, what the rewrite stage and
\* the retriever can give
UserInput == <<"q">>
ChatHistories == {None, <<"m">>}
Rewrites == {<<"q">>, <<"r">>}
Retrievals == {<<>>, <<Document(<<"a">>, EmptyMetadata), Document(<<"b">>, EmptyMetadata)>>}

\* _build_lcel_chain clearing self.chain before it composes
_build_lcel_chain_clearing(self, composeOk) ==
    IF ~self.retriever.bound \/ ~composeOk
    THEN [self |-> [self EXCEPT !.chain = NoChain],
          out |-> Raise("ProjectException", "Failed to build LCEL chain")]
    ELSE [self |-> [self EXCEPT !.chain = Chain(self.retriever)], out |-> Return(0)]

\* ConversationalRAG._build_lcel_chain: result [self, out]; composeOk: do the
\* `|` compositions over llm and retriever succeed
_build_lcel_chain(self, composeOk) ==
    IF ~self.retriever.bound
    THEN [self |-> self, out |-> Raise("ProjectException", MsgBuildChain)]
    ELSE IF ~composeOk
    THEN [self |-> self, out |-> Raise("ProjectException", MsgBuildChain)]
    ELSE [self |-> [self EXCEPT !.chain = Chain(self.retriever)], out |-> Return(0)]

\* line 84, `search_kwargs == "mmr"`: a dict never equals a string
KwEqualsMmr(kw) == FALSE

\* load_retriever_from_faiss, lines 82-86: the search configuration
SearchKwargs(custom, st, k, fetch_k, lambda_mult) ==
    IF custom # NoKw THEN custom
    ELSE LET kw == [NoKw EXCEPT !.k = k]
         IN  IF KwEqualsMmr(kw)
             THEN [kw EXCEPT !.fetch_k = fetch_k, !.lambda_mult = lambda_mult]
             ELSE kw

\* the external calls of load_retriever_from_faiss: env |-> does ModelLoader()
\* find its keys and config, load |-> does FAISS.load_local succeed,
\* compose |-> does the chain composition succeed
RetrExt == [env : BOOLEAN, load : BOOLEAN, compose : BOOLEAN]

\* ConversationalRAG.load_retriever_from_faiss: result [self, out]
load_retriever_from_faiss(self, d, index_path, st, custom, ext) ==
    IF index_path = "missing"
    THEN [self |-> self, out |-> Raise("ProjectException", "FileNotFoundError")]
    ELSE IF ~ext.env
    THEN [self |-> self, out |-> Raise("ProjectException", "ModelLoader failed")]
    ELSE IF ~(_exists(d) /\ ext.load)
    THEN [self |-> self, out |-> Raise("ProjectException", "FAISS.load_local failed")]
    ELSE LET kw == SearchKwargs(custom, st, "k", "fetch_k", "lambda_mult")
             self1 == [self EXCEPT !.retriever = Retriever("faiss", st, kw)]
             b == _build_lcel_chain(self1, ext.compose)
         IN  IF b.out.kind = "raise"
             THEN [self |-> b.self, out |-> Raise("ProjectException", MsgBuildChain)]
             ELSE [self |-> b.self, out |-> Return(0)]

\* ConversationalRAG.__init__: result [self, out]; llmOk: does _load_llm succeed
RagConstruct(retriever, llmOk, composeOk) ==
    IF ~llmOk
    THEN [self |-> NoRag, out |-> Raise("ProjectException", MsgLlmLoading)]
    ELSE LET self0 == [alive |-> TRUE, retriever |-> retriever, chain |-> NoChain]
         IN  IF ~retriever.bound
             THEN [self |-> self0, out |-> Return(0)]
             ELSE LET b == _build_lcel_chain(self0, composeOk)
                  IN  IF b.out.kind = "raise"
                      THEN [self |-> NoRag,
                            out |-> Raise("ProjectException", MsgBuildChain)]
                      ELSE [self |-> b.self, out |-> Return(0)]

\* ConversationalRAG(session_id, retriever): a raise leaves no instance
ConversationalRAG ==
    /\ ~rag.alive
    /\ \E r \in {NoRetriever, Retriever("ctor", "given", NoKw)},
          llmOk \in BOOLEAN, composeOk \in BOOLEAN :
          LET c == RagConstruct(r, llmOk, composeOk)
          IN  /\ rag' = c.self
              /\ call' = [NoCall EXCEPT !.op = "ConversationalRAG", !.retrieverArg = r,
                                        !.out = c.out, !.preDisk = disk, !.preFm = fm,
                                        !.preRag = rag]
    /\ UNCHANGED <<disk, fm, tree, ing, writers>>

LoadRetrieverFromFaiss ==
    /\ rag.alive
    /\ \E index_path \in {"faiss_dir", "missing"}, st \in {"mmr", "similarity"},
          custom \in {NoKw, [NoKw EXCEPT !.k = "custom k"]}, ext \in RetrExt :
          LET r == load_retriever_from_faiss(rag, disk, index_path, st, custom, ext)
          IN  /\ rag' = r.self
              /\ call' = [NoCall EXCEPT !.op = "load_retriever_from_faiss",
                                        !.index_path = index_path, !.search_type = st,
                                        !.custom = custom, !.out = r.out,
                                        !.preDisk = disk, !.preFm = fm, !.preRag = rag]
    /\ UNCHANGED <<disk, fm, tree, ing, writers>>

Invoke ==
    /\ rag.alive
    /\ \E pipe \in PipeResults, chat_history \in ChatHistories,
          rewritten \in Rewrites, retrieved \in Retrievals :
          LET r == invoke(rag, pipe)
          IN  call' = [NoCall EXCEPT !.op = "invoke", !.out = r.out,
                                     !.pipelineCalled = r.called,
                                     !.pipe = IF r.called THEN pipe ELSE NoPipe,
                                     !.payload = Payload(UserInput, chat_history),
                                     !.rewritten = IF r.called THEN rewritten ELSE None,
                                     !.retrieved = IF r.called THEN retrieved ELSE <<>>,
                                     !.preDisk = disk, !.preFm = fm, !.preRag = rag]
    /\ UNCHANGED <<disk, fm, rag, tree, ing, writers>>

\* ------------------------------------------------------------- uploads
\* a path is the sequence of its components; the defaults of
\* ChatIngestor.__init__: temp_base="data", faiss_base="faiss_index"
TempBase == <<"data">>
FaissBase == <<"faiss_index">>

\* a session id a caller passes, and ids generate_sesstion_id can give (a
\* timestamp and 8 hex digits of a uuid4: two calls may give the same id)
SessionIds == {"s1"}
GeneratedIds == {"session_1", "session_2"}

\* the directories _resolve_dir can return
TempDirs == {TempBase} \cup { TempBase \o <<sid>> : sid \in SessionIds \cup GeneratedIds }
FaissDirs == {FaissBase} \cup { FaissBase \o <<sid>> : sid \in SessionIds \cup GeneratedIds }

\* the two ingestors
Slots == {"A", "B"}
NoIngestor == [alive |-> FALSE, user_session |-> FALSE, session_id |-> "none",
               temp_dir |-> <<>>, faiss_dir |-> <<>>]

\* an uploaded file: the stem and the suffix of its name
UploadedFile(stem, suffix) == [stem |-> stem, suffix |-> suffix]
UploadedFiles == { UploadedFile("a", ".txt"), UploadedFile("b", ".PDF"),
                   UploadedFile("c", ".md"), UploadedFile("d", ".exe") }
Uploads == SeqsUpTo(UploadedFiles, MaxUpload)

\* str.lower() on the suffixes that occur
Lower(suffix) == IF suffix = ".PDF" THEN ".pdf" ELSE suffix

\* file_io.SUPPORTED_EXTENSIONS
SUPPORTED_EXTENSIONS ==
    {".pdf", ".docx", ".txt", ".pptx", ".md", ".csv", ".xlsx", ".xls", ".db",
     ".sqlite", ".sqlite3"}

\* file_io lines 30-32: target_dir / f"{safe_name}_{uuid6}{ext}" (the uuid
\* tag is left out of the name)
SavedPath(target_dir, uf) ==
    [dir |-> target_dir, stem |-> uf.stem, suffix |-> Lower(uf.suffix)]

\* the external calls of save_uploaded_files: writing a file succeeds or raises
SaveExt == {"ok", "write fails"}

\* save_uploaded_files, lines 20-55: the loop.  An unsupported extension
\* reaches line 26, `log.warrning(...)`: the logger has no attribute of that
\* name, AttributeError
RECURSIVE SaveLoop(_, _, _, _)
SaveLoop(files, target_dir, saved, ext) ==
    IF files = <<>>
    THEN [raised |-> FALSE, exc |-> "", saved |-> saved]
    ELSE LET uf == Head(files)
         IN  IF Lower(uf.suffix) \notin SUPPORTED_EXTENSIONS
             THEN [raised |-> TRUE, exc |-> "AttributeError", saved |-> saved]
             ELSE IF ext = "write fails"
             THEN [raised |-> TRUE, exc |-> "OSError", saved |-> saved]
             ELSE SaveLoop(Tail(files), target_dir,
                           Append(saved, SavedPath(target_dir, uf)), ext)

\* save_uploaded_files: result [out, ret, written]; the function has no return
\* statement, so a call that completes returns None
save_uploaded_files(uploaded_files, target_dir, ext) ==
    LET l == SaveLoop(uploaded_files, target_dir, <<>>, ext)
    IN  IF l.raised
        THEN [out |-> Raise("ProjectException", l.exc), ret |-> NoArg,
              written |-> l.saved]
        ELSE [out |-> ReturnNone, ret |-> NoArg, written |-> l.saved]

\* document_ops lines 23-31: the loader chosen for an extension
LoaderFor(suffix) ==
    CASE suffix = ".pdf"  -> "PyPDFLoader"
      [] suffix = ".docx" -> "Docx2txtLoader"
      [] suffix = ".txt"  -> "TextLoader"
      [] OTHER            -> "none"

\* loader.load(): the records of one file, their source the file's path
LoadFile(p) == <<Document(<<p.stem>>, Metadata(<<p.stem, p.suffix>>, None, None))>>

\* the external calls of load_documents: a loader succeeds or raises
LoadDocsExt == {"ok", "load fails"}

\* load_documents, lines 21-32: the loop
RECURSIVE LoadLoop(_, _, _)
LoadLoop(paths, docs, ext) ==
    IF paths = <<>>
    THEN [raised |-> FALSE, exc |-> "", docs |-> docs]
    ELSE LET q == Head(paths)
         IN  IF LoaderFor(Lower(q.suffix)) = "none"
             THEN LoadLoop(Tail(paths), docs, ext)
             ELSE IF ext = "load fails"
             THEN [raised |-> TRUE, exc |-> "loader.load failed", docs |-> docs]
             ELSE LoadLoop(Tail(paths), docs \o LoadFile(q), ext)

\* load_documents: result [out, ret, docs]; iterating None raises TypeError
\* inside the try block; the function has no return statement, so a call that
\* completes returns None and the list docs is dropped
load_documents(paths, ext) ==
    IF paths.isNone
    THEN [out |-> Raise("ProjectException", "'NoneType' object is not iterable"),
          ret |-> NoArg, docs |-> <<>>]
    ELSE LET l == LoadLoop(paths.val, <<>>, ext)
         IN  IF l.raised
             THEN [out |-> Raise("ProjectException", l.exc), ret |-> NoArg,
                   docs |-> l.docs]
             ELSE [out |-> ReturnNone, ret |-> NoArg, docs |-> l.docs]

\* save_uploaded_files(uploaded_files, target_dir): line 18 makes target_dir
SaveUploadedFiles ==
    /\ \E files \in Uploads, ext \in SaveExt :
          LET r == save_uploaded_files(files, TempBase, ext)
          IN  call' = [NoCall EXCEPT !.op = "save_uploaded_files", !.uploaded = files,
                                     !.ext = ext, !.out = r.out, !.ret = r.ret,
                                     !.written = r.written]
    /\ tree' = [tree EXCEPT !.made = @ \cup {TempBase}]
    /\ UNCHANGED <<disk, fm, rag, ing, writers>>

\* load_documents(paths): paths None, or the paths of saved files
LoadDocuments ==
    /\ \E files \in Uploads, pNone \in BOOLEAN, ext \in LoadDocsExt :
          LET paths == IF pNone THEN NoArg
                       ELSE Arg([i \in 1..Len(files) |-> SavedPath(TempBase, files[i])])
              r == load_documents(paths, ext)
          IN  /\ (pNone => files = <<>>)
              /\ call' = [NoCall EXCEPT !.op = "load_documents", !.paths = paths,
                                        !.ext = ext, !.out = r.out, !.ret = r.ret]
    /\ UNCHANGED <<disk, fm, rag, tree, ing, writers>>

\* ------------------------------------------------------------- ChatIngestor
\* session_id=None (or the empty string): falsy
NoSessionId == ""

\* _resolve_dir without the session subfolder
_resolve_dir_base(self, base) == base

\* ChatIngestor._resolve_dir: base / session_id, or base
_resolve_dir(self, base) ==
    IF self.user_session THEN base \o <<self.session_id>> ELSE base

\* ChatIngestor.__init__: result [self, tree, out]; generated: what
\* generate_sesstion_id gives; envOk: does ModelLoader() find its keys and
\* config.  A raise leaves no instance
ChatIngestorInit(tr, use_session_dirs, session_id, generated, envOk) ==
    IF ~envOk
    THEN [self |-> NoIngestor, tree |-> tr,
          out |-> Raise("ProjectException", "ModelLoader failed")]
    ELSE LET self0 == [NoIngestor EXCEPT
                         !.alive = TRUE,
                         !.user_session = use_session_dirs,
                         !.session_id = IF session_id # NoSessionId
                                        THEN session_id ELSE generated]
             self1 == [self0 EXCEPT !.temp_dir = _resolve_dir(self0, TempBase),
                                    !.faiss_dir = _resolve_dir(self0, FaissBase)]
         IN  [self |-> self1,
              tree |-> [tr EXCEPT !.made = @ \cup {TempBase, FaissBase,
                                                   self1.temp_dir, self1.faiss_dir}],
              out |-> ReturnNone]

\* _split's defaults (line 68), build_retriver's too (lines 81-82), and the
\* values test_split_documents passes
DefaultChunkSize == 1000
DefaultChunkOverlap == 200
TestChunkSize == 10
TestChunkOverlap == 0

\* RecursiveCharacterTextSplitter.split_text on a text without separators:
\* pieces of chunk_size characters, each starting chunk_size - chunk_overlap
\* characters after the one before, the last one ending the text
RECURSIVE SplitFrom(_, _, _, _)
SplitFrom(text, start, chunk_size, chunk_overlap) ==
    IF start + chunk_size - 1 >= Len(text)
    THEN <<SubSeq(text, start, Len(text))>>
    ELSE <<SubSeq(text, start, start + chunk_size - 1)>>
         \o SplitFrom(text, start + chunk_size - chunk_overlap, chunk_size, chunk_overlap)

SplitText(text, chunk_size, chunk_overlap) ==
    IF text = <<>> THEN <<>> ELSE SplitFrom(text, 1, chunk_size, chunk_overlap)

\* splitter.split_documents(docs): the pieces of each document in order, each
\* with its document's metadata
RECURSIVE SplitDocuments(_, _, _)
SplitDocuments(docs, chunk_size, chunk_overlap) ==
    IF docs = <<>> THEN <<>>
    ELSE LET pieces == SplitText(Head(docs).page_content, chunk_size, chunk_overlap)
         IN  [i \in 1..Len(pieces) |-> Document(pieces[i], Head(docs).metadata)]
             \o SplitDocuments(Tail(docs), chunk_size, chunk_overlap)

\* ChatIngestor._split(docs, chunk_size, chunk_overlap): result [raised, exc,
\* chunks, window]; the splitter's constructor refuses an overlap larger than
\* the chunk size (ValueError); split_documents(docs) iterates docs, TypeError
\* on None
_split(docs, chunk_size, chunk_overlap) ==
    IF chunk_overlap > chunk_size
    THEN [raised |-> TRUE, exc |-> "ValueError", chunks |-> <<>>, window |-> NoWindow]
    ELSE IF docs.isNone
    THEN [raised |-> TRUE, exc |-> "TypeError", chunks |-> <<>>,
          window |-> Window(chunk_size, chunk_overlap)]
    ELSE [raised |-> FALSE, exc |-> "",
          chunks |-> SplitDocuments(docs.val, chunk_size, chunk_overlap),
          window |-> Window(chunk_size, chunk_overlap)]

\* line 93, FaissManager(self.faiss_dir, self.model_loader): the constructor
\* raises AttributeError at its line 141 (FaissManagerInit)
FaissManagerCtor(d) == [raised |-> TRUE, self |-> NewReceiver(d)]

\* build_retriver, lines 106-111: the search configuration
BuildSearchKwargs(st, k, fetch_k, lambda_mult) ==
    LET kw == [NoKw EXCEPT !.k = k]
    IN  IF st = "mmr"
        THEN [kw EXCEPT !.fetch_k = fetch_k, !.lambda_mult = lambda_mult]
        ELSE kw

\* line 115, `vs._as_retriever(...)`: the FAISS store has as_retriever and no
\* attribute _as_retriever, AttributeError
AsRetrieverPrivate == [raised |-> TRUE]

\* the external calls of one build_retriver, by scenario
BuildExt == {"ok", "write fails", "load fails", "first load_or_create fails",
             "both load_or_create fail", "add fails"}
ExtSave(ext) == IF ext = "write fails" THEN "write fails" ELSE "ok"
ExtLoadDocs(ext) == IF ext = "load fails" THEN "load fails" ELSE "ok"
ExtFirst(ext) ==
    IF ext \in {"first load_or_create fails", "both load_or_create fail"}
    THEN "save wrote none" ELSE "ok"
ExtRetry(ext) == IF ext = "both load_or_create fail" THEN "save wrote none" ELSE "ok"
ExtAdd(ext) == IF ext = "add fails" THEN "add fails" ELSE "ok"

\* lines 99-100: load_or_create is called once more when the first call (l1)
\* raised; result [r, trace]
RetryLoadOrCreate(l1, texts, metas, ext) ==
    IF l1.out.kind = "raise"
    THEN [r |-> load_or_create(l1.fm, l1.disk, texts, metas, ExtRetry(ext)),
          trace |-> <<"load_or_create", "load_or_create">>]
    ELSE [r |-> l1, trace |-> <<"load_or_create">>]

\* line 102 after the add_documents call (a)
AfterAddDocuments(lr, a) ==
    [fm |-> a.fm, disk |-> a.disk, out |-> a.out,
     trace |-> Append(lr.trace, "add_documents"), handle |-> a.fm.vs]

\* lines 97-102 after load_or_create (lr): a raise leaves build_retriver, a
\* return is followed by add_documents
AfterLoadOrCreate(lr, chunks, ext) ==
    IF lr.r.out.kind = "raise"
    THEN [fm |-> lr.r.fm, disk |-> lr.r.disk, out |-> lr.r.out, trace |-> lr.trace,
          handle |-> NoHandle]
    ELSE AfterAddDocuments(lr, add_documents(lr.r.fm, lr.r.disk, chunks, ExtAdd(ext)))

\* lines 94-95: texts and metas of the chunks
ChunkTexts(chunks) == Arg([i \in 1..Len(chunks) |-> chunks[i].page_content])
ChunkMetas(chunks) == Arg([i \in 1..Len(chunks) |-> chunks[i].metadata])

\* build_retriver, lines 94-102, on a manager self over directory d:
\* load_or_create, once more if it raised, then add_documents; result
\* [fm, disk, out, trace, handle] (handle: what load_or_create returned)
IngestChunks(self, d, chunks, ext) ==
    AfterLoadOrCreate(
        RetryLoadOrCreate(
            load_or_create(self, d, ChunkTexts(chunks), ChunkMetas(chunks),
                           ExtFirst(ext)),
            ChunkTexts(chunks), ChunkMetas(chunks), ext),
        chunks, ext)

\* the result of a build_retriver that raised: line 117 wraps the exception
BuildFailed(tr, trace, written, exc) ==
    [tree |-> tr, out |-> Raise("ProjectException", exc), trace |-> trace,
     written |-> written, retriever |-> NoRetriever, handle |-> NoHandle,
     window |-> NoWindow]

\* the calls build_retriver has made once load_documents was called
UpToLoad == <<"save_uploaded_files", "load_documents">>

\* build_retriver, lines 103-115, after the ingestion (g) of lines 94-102
BuildReturn(self, tr, a, written, g) ==
    IF g.out.kind = "raise"
    THEN BuildFailed([tr EXCEPT !.index[self.faiss_dir] = g.disk],
                     UpToLoad \o g.trace, written, g.out.exc)
    ELSE IF AsRetrieverPrivate.raised
    THEN BuildFailed([tr EXCEPT !.index[self.faiss_dir] = g.disk],
                     UpToLoad \o g.trace, written, "AttributeError")
    ELSE [tree |-> [tr EXCEPT !.index[self.faiss_dir] = g.disk], out |-> ReturnNone,
          trace |-> UpToLoad \o g.trace, written |-> written,
          retriever |-> Retriever("ingest", a.search_type,
                                  BuildSearchKwargs(a.search_type, a.k, a.fetch_k,
                                                    a.lambda_mult)),
          handle |-> g.handle, window |-> NoWindow]

\* build_retriver, lines 93-102, after the manager's construction (c)
BuildIngest(self, tr, a, written, chunks, c) ==
    IF c.raised
    THEN BuildFailed(tr, UpToLoad, written, "AttributeError")
    ELSE BuildReturn(self, tr, a, written,
                     IngestChunks(c.self, tr.index[self.faiss_dir], chunks, a.ext))

\* build_retriver, lines 91-93, after _split (sp); window: the window of the
\* splitter that _split made
BuildManager(self, tr, a, written, sp) ==
    [(IF sp.raised
      THEN BuildFailed(tr, UpToLoad, written, sp.exc)
      ELSE BuildIngest(self, tr, a, written, sp.chunks,
                       FaissManagerCtor(tr.index[self.faiss_dir])))
        EXCEPT !.window = sp.window]

\* build_retriver, lines 90-91, after load_documents (ld); line 91 is
\* self._split(docs): the caller's chunk_size and chunk_overlap (a) are not
\* handed on, _split runs with its own defaults
BuildSplit(self, tr, a, written, ld) ==
    IF ld.out.kind = "raise"
    THEN BuildFailed(tr, UpToLoad, written, ld.out.msg)
    ELSE BuildManager(self, tr, a, written,
                      _split(ld.ret, DefaultChunkSize, DefaultChunkOverlap))

\* build_retriver, lines 89-90, after save_uploaded_files (s)
BuildLoad(self, tr, a, s) ==
    IF s.out.kind = "raise"
    THEN BuildFailed(tr, <<"save_uploaded_files">>, s.written, s.out.msg)
    ELSE BuildSplit(self, tr, a, s.written, load_documents(s.ret, ExtLoadDocs(a.ext)))

\* ChatIngestor.build_retriver: result [tree, out, trace, written, retriever,
\* handle]; a: the keyword arguments and the external outcomes; trace: the
\* calls to save_uploaded_files, load_documents, load_or_create and
\* add_documents it made, in order
build_retriver(self, tr, uploaded_file, a) ==
    BuildLoad(self, [tr EXCEPT !.made = @ \cup {self.temp_dir}], a,
              save_uploaded_files(uploaded_file, self.temp_dir, ExtSave(a.ext)))

\* the batches handed to build_retriver: none, one text file, a text and a
\* pdf file, a file outside the allow-list
BuildUploads == {<<>>, <<UploadedFile("a", ".txt")>>,
                 <<UploadedFile("a", ".txt"), UploadedFile("b", ".PDF")>>,
                 <<UploadedFile("d", ".exe")>>}

\* the batches of chunks a manager over a session's directory is handed: the
\* one chunk of a file, and the two chunks of a file (they share the file's
\* source)
IngestBatches ==
    {<<Document(<<"a">>, Metadata(<<"f">>, None, None))>>,
     <<Document(<<"a">>, Metadata(<<"f">>, None, None)),
       Document(<<"b">>, Metadata(<<"f">>, None, None))>>}

\* ChatIngestor(use_session_dirs=..., session_id=...)
ChatIngestor ==
    \E slot \in Slots, use_session_dirs \in BOOLEAN,
       session_id \in SessionIds \cup {NoSessionId},
       generated \in GeneratedIds, envOk \in BOOLEAN :
        LET c == ChatIngestorInit(tree, use_session_dirs, session_id, generated, envOk)
        IN  /\ ~ing[slot].alive
            /\ ing' = [ing EXCEPT ![slot] = c.self]
            /\ tree' = c.tree
            /\ call' = [NoCall EXCEPT !.op = "ChatIngestor", !.slot = slot,
                                      !.out = c.out]
            /\ UNCHANGED <<disk, fm, rag, writers>>

\* the chunk_size and chunk_overlap a caller of build_retriver passes: none
\* (the defaults of lines 81-82), or the test's
BuildChunkings == {Window(DefaultChunkSize, DefaultChunkOverlap),
                   Window(TestChunkSize, TestChunkOverlap)}

\* the keyword arguments a caller of build_retriver passes: none, or a search
\* type with a chunk_size and a chunk_overlap
BuildKwargs ==
    {[search_type |-> "mmr", chunking |-> Window(DefaultChunkSize, DefaultChunkOverlap)],
     [search_type |-> "similarity", chunking |-> Window(TestChunkSize, TestChunkOverlap)]}

\* ingestor.build_retriver(uploaded_file, chunk_size=..., chunk_overlap=...,
\* search_type=...)
BuildRetriver ==
    \E slot \in Slots, files \in BuildUploads, kwargs \in BuildKwargs,
       ext \in BuildExt :
        LET st == kwargs.search_type
            chunking == kwargs.chunking
            r == build_retriver(ing[slot], tree, files,
                                    [chunk_size |-> chunking.chunk_size,
                                     chunk_overlap |-> chunking.chunk_overlap,
                                     search_type |-> st, k |-> "k",
                                     fetch_k |-> "fetch_k",
                                     lambda_mult |-> "lambda_mult", ext |-> ext])
        IN  /\ ing[slot].alive
            /\ tree' = r.tree
            /\ call' = [NoCall EXCEPT !.op = "build_retriver", !.slot = slot,
                                      !.uploaded = files, !.search_type = st,
                                      !.ext = IF ext = "ok" THEN "ok" ELSE "fails",
                                      !.out = r.out, !.trace = r.trace,
                                      !.written = r.written,
                                      !.retrieverArg = r.retriever,
                                      !.chunking = chunking, !.window = r.window,
                                      !.preDisk = tree.index[ing[slot].faiss_dir]]
            /\ UNCHANGED <<disk, fm, rag, ing, writers>>

\* the documents handed to _split: none, a text shorter than every chunk
\* size, a text two characters longer than the test's chunk size
SplitDocs ==
    {<<>>,
     <<Document(<<"a">>, Metadata(<<"f">>, None, None))>>,
     <<Document([i \in 1..(TestChunkSize + 2) |-> "x"], Metadata(<<"f">>, None, None))>>}

\* the chunk_size and chunk_overlap handed to _split: the defaults, the
\* test's, the test's chunk_size alone
SplitChunkings == BuildChunkings \cup {Window(TestChunkSize, DefaultChunkOverlap)}

\* ingestor._split(docs, chunk_size=..., chunk_overlap=...), as
\* test_split_documents calls it
Split ==
    \E docs \in SplitDocs, chunking \in SplitChunkings :
        LET r == _split(Arg(docs), chunking.chunk_size, chunking.chunk_overlap)
        IN  /\ \E slot \in Slots : ing[slot].alive
            /\ call' = [NoCall EXCEPT !.op = "_split", !.docs = docs,
                                      !.chunking = chunking, !.window = r.window,
                                      !.out = IF r.raised THEN Raise(r.exc, "")
                                              ELSE Return(Len(r.chunks)),
                                      !.retrieved = r.chunks]
            /\ UNCHANGED <<disk, fm, rag, tree, ing, writers>>

\* the external calls of load_embeddings: the config lookup, the api key
\* lookup and the MistralAIEmbeddings constructor succeed, or one raises
EmbeddingsExt == {"ok", "config fails"}

\* ModelLoader.load_embeddings: result [out, ret]; the except branch logs,
\* constructs a ProjectException without raising it and falls off the end of
\* the function, which returns None
load_embeddings(ext) ==
    IF ext = "ok"
    THEN [out |-> ReturnNone, ret |-> Arg(<<"MistralAIEmbeddings">>)]
    ELSE [out |-> ReturnNone, ret |-> NoArg]

\* model_loader.load_embeddings()
LoadEmbeddings ==
    /\ \E ext \in EmbeddingsExt :
          LET r == load_embeddings(ext)
          IN  call' = [NoCall EXCEPT !.op = "load_embeddings", !.ext = ext,
                                     !.out = r.out, !.ret = r.ret]
    /\ UNCHANGED <<disk, fm, rag, tree, ing, writers>>

\* build_retriver, lines 93-102, by a manager over the ingestor's index
\* directory, on a receiver holding what the constructor assigns
ManagerIngest ==
    \E slot \in Slots, chunks \in IngestBatches, ext \in BuildExt :
        LET d == ing[slot].faiss_dir
            g == IngestChunks(NewReceiver(tree.index[d]), tree.index[d], chunks, ext)
        IN  /\ ing[slot].alive
            /\ ExtSave(ext) = "ok" /\ ExtLoadDocs(ext) = "ok"
            /\ tree' = [tree EXCEPT !.index[d] = g.disk]
            /\ call' = [NoCall EXCEPT !.op = "ingest", !.slot = slot,
                                      !.docs = chunks, !.ext = ext, !.out = g.out,
                                      !.trace = g.trace, !.preDisk = tree.index[d]]
            /\ UNCHANGED <<disk, fm, rag, ing, writers>>

\* ------------------------------------------------------------- fingerprints
\* the arguments of _fingerprint: texts, and metadata whose source, file_path
\* and raw_id are absent (None), empty, or strings with and without ':'
Texts == {<<"a">>, <<"b">>}
Sources == {None, <<>>, <<"f">>, <<"f", ":">>}
FilePaths == {None, <<>>, <<"f">>}
RawIds == {None, <<":">>, <<"1">>}
Metadatas == { Metadata(src, fpath, rid) : src \in Sources, fpath \in FilePaths,
                                           rid \in RawIds }

\* FaissManager._fingerprint(text, md), a static method: the call, kept with
\* the call before it
Fingerprint ==
    /\ \E text \in Texts, md \in Metadatas :
          call' = [NoCall EXCEPT !.op = "_fingerprint", !.text = text, !.md = md,
                                 !.fp = _fingerprint(text, md),
                                 !.prevText = call.text, !.prevMd = call.md,
                                 !.prevFp = call.fp]
    /\ UNCHANGED <<disk, fm, rag, tree, ing, writers>>

\* ------------------------------------------------------------- several managers
\* FaissManager instances over one index directory (build_retriver makes a new
\* one at line 93 on every call), each with its own self.vs and self._meta;
\* their calls never overlap: each call is one step
Writers == {"m1", "m2"}
NoWriter == [alive |-> FALSE, self |-> [vs |-> NoHandle, meta |-> EmptyMeta]]

\* FaissManager(index_dir, model_loader), lines 128-142, on a receiver holding
\* what the constructor assigns: the ledger is read from the directory as it
\* is when the instance is made
WriterInit ==
    \E w \in Writers :
        /\ writers' = [writers EXCEPT ![w] = [alive |-> TRUE, self |-> NewReceiver(disk)]]
        /\ call' = [NoCall EXCEPT !.op = "FaissManager", !.slot = w,
                                  !.preDisk = disk, !.preFm = writers[w].self]
        /\ UNCHANGED <<disk, fm, rag, tree, ing>>

\* load_or_create(texts, metadatas) of one instance, as build_retriver calls it
WriterLoadOrCreate ==
    \E w \in Writers, b \in Batches \ {<<>>} :
        LET texts == Arg([i \in 1..Len(b) |-> b[i].page_content])
            metas == Arg([i \in 1..Len(b) |-> b[i].metadata])
            r == load_or_create(writers[w].self, disk, texts, metas, "ok")
        IN  /\ writers[w].alive
            /\ writers' = [writers EXCEPT ![w].self = r.fm]
            /\ disk' = r.disk
            /\ call' = [MCall("load_or_create", texts, metas, <<>>, r.path, r.out,
                               disk, writers[w].self)
                           EXCEPT !.slot = w]
            /\ UNCHANGED <<fm, rag, tree, ing>>

\* add_documents(docs) of one instance
WriterAddDocuments ==
    \E w \in Writers, docs \in Batches \ {<<>>} :
        LET r == add_documents(writers[w].self, disk, docs, "ok")
        IN  /\ writers[w].alive
            /\ writers' = [writers EXCEPT ![w].self = r.fm]
            /\ disk' = r.disk
            /\ call' = [MCall("add_documents", NoArg, NoArg, docs, "none", r.out,
                               disk, writers[w].self)
                           EXCEPT !.slot = w]
            /\ UNCHANGED <<fm, rag, tree, ing>>

vars == <<disk, fm, rag, tree, ing, writers, call>>

\* the index directory starts empty; the receiver holds what __init__ assigns
\* over it: self._meta = {"rows": {}} (line 132), self.vs = None (line 142)
InitManager ==
    /\ disk = EmptyDir
    /\ fm = NewReceiver(EmptyDir)
    /\ call = NoCall

\* no chain instance yet
InitChain == rag = NoRag

\* no directory made, every index directory empty, no ingestor yet
InitIngest ==
    /\ tree = [made |-> {}, index |-> [d \in FaissDirs |-> EmptyDir]]
    /\ ing = [s \in Slots |-> NoIngestor]

\* no other manager instance over the index directory yet
InitWriters == writers = [w \in Writers |-> NoWriter]

Init == InitManager /\ InitChain /\ InitIngest /\ InitWriters

\* the index manager alone
Next ==
    \/ FaissManagerInit
    \/ LoadOrCreate
    \/ AddDocuments

Spec == Init /\ [][Next]_vars

\* the chain over an index directory that is empty or holds an index that
\* load_or_create created
IndexedDir == SaveLocal(EmptyDir, <<Document(<<"a">>, EmptyMetadata)>>, "both")

InitWithIndex ==
    /\ disk \in {EmptyDir, IndexedDir}
    /\ fm = NewReceiver(disk)
    /\ call = NoCall
    /\ InitChain
    /\ InitIngest
    /\ InitWriters

NextChain ==
    \/ ConversationalRAG
    \/ LoadRetrieverFromFaiss
    \/ Invoke

SpecChain == InitWithIndex /\ [][NextChain]_vars

\* the ingestor with the utilities it calls
NextIngest ==
    \/ ChatIngestor
    \/ BuildRetriver
    \/ ManagerIngest
    \/ Split

SpecIngest == Init /\ [][NextIngest]_vars

\* the upload, loading and embedding utilities
NextUtils ==
    \/ SaveUploadedFiles
    \/ LoadDocuments
    \/ LoadEmbeddings

SpecUtils == Init /\ [][NextUtils]_vars

\* fingerprinting alone
NextFingerprint == Fingerprint

SpecFingerprint == Init /\ [][NextFingerprint]_vars

\* several manager instances over one index directory, one call at a time
NextWriters ==
    \/ WriterInit
    \/ WriterLoadOrCreate
    \/ WriterAddDocuments

SpecWriters == Init /\ [][NextWriters]_vars

\* ------------------------------------------------------------- claims
Fingerprints(docs) ==
    { _fingerprint(docs[i].page_content, docs[i].metadata) : i \in 1..Len(docs) }

IndexPresent(d) == d.faiss /\ d.pkl

\* C1: ingesting a batch S twice (load_or_create then add_documents, each
\* time) stores as many chunks as ingesting it once, and the second
\* add_documents returns 0.
C1_IdempotentIngestion ==
    \A S \in Batches \ {<<>>} :
        LET once  == IngestOnce(disk, S)
            twice == IngestOnce(once.disk, S)
        IN  /\ once.out.kind = "return"
            /\ twice.out = Return(0)
            /\ Len(twice.disk.store) = Len(once.disk.store)

\* C2: add_documents on a manager with a loaded handle appends exactly the
\* chunks whose fingerprint was not in the ledger when the call started, adds
\* exactly their fingerprints to the ledger, returns their number, and leaves
\* the persisted index and ledger equal to the in-memory ones.
C2_AddDocumentsContract ==
    (call.op = "add_documents" /\ call.preFm.vs.loaded) =>
        LET old == call.preFm.meta.rows
            IsNew(c) == _fingerprint(c.page_content, c.metadata) \notin old
            new == SelectSeq(call.docs, IsNew)
        IN  /\ call.out = Return(Len(new))
            /\ fm.vs = Handle(call.preFm.vs.docs \o new)
            /\ fm.meta.rows = old \cup Fingerprints(new)
            /\ disk.store = fm.vs.docs
            /\ disk.meta.exists /\ disk.meta.rows = fm.meta.rows

\* C3: in every reachable state every chunk held by the vector index has its
\* fingerprint in the ledger.
C3_LedgerInvariant ==
    fm.vs.loaded => Fingerprints(fm.vs.docs) \subseteq fm.meta.rows

\* C4: add_documents on a manager without a handle fails with the state error
\* that tells the caller to call load_or_create first, and changes nothing.
C4_AddBeforeLoad ==
    (call.op = "add_documents" /\ ~call.preFm.vs.loaded) =>
        /\ call.out = Raise("RuntimeError", MsgCallLoadFirst)
        /\ fm = call.preFm
        /\ disk = call.preDisk

\* C5: invoke on an UNINITIALIZED chain never calls the pipeline and fails
\* with the state error that directs the caller to bind a retriever first.
C5_InvokeUninitialized ==
    (call.op = "invoke" /\ ~call.preRag.retriever.bound /\ ~call.preRag.chain.built) =>
        /\ ~call.pipelineCalled
        /\ call.out.kind = "raise"
        /\ call.out.msg = MsgChainNotInit

\* the case of C6: load_or_create with no index in the directory and texts
\* None or empty
C6_Case ==
    /\ call.op = "load_or_create"
    /\ ~IndexPresent(call.preDisk)
    /\ (call.texts.isNone \/ Len(call.texts.val) = 0)

\* C6 as stated: load_or_create with no index and texts empty or None fails
\* with the configuration error, leaves the manager without a handle and
\* creates no artifact on disk.
C6_NoIndexNoTexts ==
    C6_Case =>
        /\ call.out = Raise("ProjectException", MsgNoIndexNoData)
        /\ ~fm.vs.loaded
        /\ disk = call.preDisk

\* C6 amended: load_or_create with no index and texts empty or None fails
\* with the configuration error, leaves the manager's handle and ledger as
\* they were (a manager without a handle stays without one) and creates no
\* artifact on disk.
C6_NoIndexNoTextsAmended ==
    C6_Case =>
        /\ call.out = Raise("ProjectException", MsgNoIndexNoData)
        /\ fm = call.preFm
        /\ disk = call.preDisk

\* C6 witness: the call happened with an empty list of texts on a manager
\* without a handle
C6_Witness ==
    /\ C6_Case
    /\ ~call.texts.isNone
    /\ ~call.preFm.vs.loaded
    /\ call.out.kind = "raise"

\* C7: load_or_create takes the load path exactly when both artifacts exist
\* (one artifact alone counts as no index); on that path the handle holds
\* exactly the persisted index whatever texts and metadatas are, and neither
\* the persisted index nor the ledger is written.
C7_LoadPath ==
    call.op = "load_or_create" =>
        /\ (call.path = "load") <=> (call.preDisk.faiss /\ call.preDisk.pkl)
        /\ call.path = "load" =>
            /\ disk = call.preDisk
            /\ fm.meta = call.preFm.meta
            /\ call.out.kind = "return" => fm.vs = Handle(call.preDisk.store)
            /\ call.out.kind = "raise" => fm = call.preFm

\* C7 witness: a load with texts that differ from the persisted index
C7_Witness ==
    /\ call.op = "load_or_create"
    /\ call.path = "load"
    /\ call.out.kind = "return"
    /\ ~call.texts.isNone
    /\ call.texts.val # <<>>
    /\ FromTexts(call.texts, call.metadatas) # call.preDisk.store
    /\ fm.vs.docs = call.preDisk.store

\* the case of C8: invoke in READY and the pipeline produced a string
C8_Case ==
    /\ call.op = "invoke"
    /\ call.preRag.chain.built
    /\ call.pipelineCalled
    /\ call.pipe.kind = "value"
    /\ ~call.pipe.answer.isNone

\* C8 as stated: an answer of length 0 or above 4096 is rejected with an
\* error, an answer of length 1..4096 is returned unchanged, never truncated.
C8_AnswerValidation ==
    C8_Case =>
        LET a == call.pipe.answer
        IN  IF a.len = 0 \/ a.len > 4096
            THEN call.out.kind = "raise"
            ELSE call.out = ReturnAnswer(a)

\* C8 amended: an answer of length above 4096 is rejected with an error, an
\* answer of length 1..4096 is returned unchanged, and an answer of length 0
\* is not rejected: invoke returns the fallback string; an over-long answer
\* is never truncated.
C8_AnswerValidationAmended ==
    C8_Case =>
        LET a == call.pipe.answer
        IN  /\ a.len > 4096 => call.out.kind = "raise"
            /\ (1 <= a.len /\ a.len <= 4096) => call.out = ReturnAnswer(a)
            /\ a.len = 0 => call.out = ReturnAnswer(Fallback)

\* C8 witness: an answer of 4097 characters was rejected
C8_Witness ==
    /\ C8_Case
    /\ call.pipe.answer.len = 4097
    /\ call.out.kind = "raise"

\* C9: when the pipeline run by invoke in READY gives an empty or falsy
\* result, invoke returns the fallback string and raises nothing.
C9_EmptyAnswerFallback ==
    (/\ call.op = "invoke"
     /\ call.preRag.chain.built
     /\ call.pipe.kind = "value"
     /\ (call.pipe.answer.isNone \/ call.pipe.answer.len = 0)) =>
        call.out = ReturnAnswer(Str(20, "No answer generated."))

\* C9 witness: the pipeline gave the empty string and invoke returned
C9_Witness ==
    /\ call.op = "invoke"
    /\ call.preRag.chain.built
    /\ call.pipe.kind = "value"
    /\ ~call.pipe.answer.isNone
    /\ call.pipe.answer.len = 0
    /\ call.out.kind = "return"

Uninitialized(r) == r.alive /\ ~r.retriever.bound /\ ~r.chain.built
Ready(r) == r.alive /\ r.retriever.bound /\ r.chain.built

\* C10: a chain constructed without a retriever is UNINITIALIZED; it is READY
\* after construction with a retriever and after a successful
\* load_retriever_from_faiss; in READY invoke runs the pipeline; once READY,
\* no invoke or load_retriever_from_faiss call makes it anything else.
C10_ChainStateMachine ==
    /\ [](call.op = "ConversationalRAG" /\ call.out.kind = "return" =>
            IF call.retrieverArg.bound THEN Ready(rag) ELSE Uninitialized(rag))
    /\ [](call.op = "load_retriever_from_faiss" /\ call.out.kind = "return" =>
            Ready(rag))
    /\ [](call.op = "invoke" /\ Ready(call.preRag) => call.pipelineCalled)
    /\ [][Ready(rag) => Ready(rag')]_vars

\* C10 witness: a READY chain on which load_retriever_from_faiss has just
\* failed while assembling the pipeline
C10_Witness ==
    /\ call.op = "load_retriever_from_faiss"
    /\ Ready(call.preRag)
    /\ call.out.kind = "raise"
    /\ call.out.msg = MsgBuildChain
    /\ Ready(rag)

\* C11: one invoke in READY runs the rewrite stage first, on the caller's
\* input and chat_history under the names its prompt reads; the retriever is
\* called next with the rewritten question; the answer stage runs last and is
\* handed the context formatted from the retrieved chunks, the caller's
\* unrewritten input and the caller's chat_history under the names its prompt
\* reads.
C11_PipelineDataFlow ==
    (call.op = "invoke" /\ Ready(call.preRag) /\ call.pipelineCalled) =>
        LET f == PipelineFlow(call.payload, call.rewritten, call.retrieved)
            rw == f[1].input
            an == f[3].input
        IN  /\ f[1].stage = "question_rewrite"
            /\ ContextualizeVars \subseteq DOMAIN rw
            /\ rw["input"] = call.payload.input
            /\ rw["chat_history"] = call.payload.chat_history
            /\ f[2].stage = "retriever"
            /\ f[2].input = call.rewritten
            /\ f[3].stage = "answer"
            /\ ContextQuestionVars \subseteq DOMAIN an
            /\ an["context"] = _format_docs(call.retrieved)
            /\ an["input"] = call.payload.input
            /\ an["chat_history"] = call.payload.chat_history

\* the files of a batch that save_uploaded_files is to keep, and the paths of
\* a list that load_documents is to load, in order
AllowListed(files) == SelectSeq(files, LAMBDA uf : Lower(uf.suffix) \in SUPPORTED_EXTENSIONS)
Loadable(paths) == SelectSeq(paths, LAMBDA q : Lower(q.suffix) \in {".pdf", ".docx", ".txt"})
RECURSIVE RecordsOf(_)
RecordsOf(paths) ==
    IF paths = <<>> THEN <<>> ELSE LoadFile(Head(paths)) \o RecordsOf(Tail(paths))

\* C12: when no write and no loader fails, save_uploaded_files completes
\* without error and returns the local paths of exactly the allow-listed files
\* of the batch, in upload order, and load_documents completes without error
\* and returns the records of exactly the paths with .pdf, .docx or .txt, in
\* path order; files and paths with other extensions are skipped.
C12_UnsupportedSkipped ==
    /\ (call.op = "save_uploaded_files" /\ call.ext = "ok") =>
        LET kept == AllowListed(call.uploaded)
        IN  /\ call.out.kind = "return"
            /\ call.ret = Arg([i \in 1..Len(kept) |-> SavedPath(TempBase, kept[i])])
    /\ (call.op = "load_documents" /\ call.ext = "ok" /\ ~call.paths.isNone) =>
        /\ call.out.kind = "return"
        /\ call.ret = Arg(RecordsOf(Loadable(call.paths.val)))

\* the case of C13: a build_retriver of a non-empty batch of .txt and .pdf
\* files during which no external call fails
C13_Case ==
    /\ call.op = "build_retriver"
    /\ call.ext = "ok"
    /\ call.uploaded # <<>>
    /\ \A i \in 1..Len(call.uploaded) :
           LoaderFor(Lower(call.uploaded[i].suffix)) # "none"

\* C13: such a build_retriver succeeds, having called save_uploaded_files,
\* load_documents, load_or_create and add_documents exactly once each in that
\* order, and returns the retriever built from the handle that load_or_create
\* returned.
C13_IngestionOrder ==
    C13_Case =>
        /\ call.out.kind = "return"
        /\ call.trace = <<"save_uploaded_files", "load_documents",
                          "load_or_create", "add_documents">>
        /\ call.retrieverArg.bound
        /\ call.retrieverArg.origin = "ingest"

\* C14: a failure inside embedding loading or inside the upload and loading
\* steps of build_retriver reaches the caller as the application-level
\* exception carrying the original cause; no such failure is swallowed.
C14_ErrorPropagation ==
    /\ (call.op = "load_embeddings" /\ call.ext # "ok") =>
        /\ call.out.kind = "raise"
        /\ call.out.exc = "ProjectException"
    /\ (call.op = "save_uploaded_files" /\ call.ext # "ok") =>
        /\ call.out.kind = "raise"
        /\ call.out.exc = "ProjectException"
    /\ (call.op = "load_documents" /\ call.ext # "ok"
            /\ call.out.kind # "return") =>
        call.out.exc = "ProjectException"

\* two ingestors with session-scoped storage and different session ids
Separate(a, b) ==
    /\ a # b
    /\ ing[a].alive /\ ing[b].alive
    /\ ing[a].user_session /\ ing[b].user_session
    /\ ing[a].session_id # ing[b].session_id

TwoFingerprints == call.op = "_fingerprint" /\ call.prevFp # None

\* the source a chunk is keyed by: its source, or its file_path when the
\* source is empty or absent
SourceOf(md) == IF Truthy(md.source) THEN md.source ELSE md.file_path

\* C16 as stated: any two chunks with identical text but different source
\* metadata receive different fingerprints, and any two chunks without a
\* source and without a file_path whose texts differ receive different
\* fingerprints.
C16_ContentAndSource ==
    TwoFingerprints =>
        /\ (call.text = call.prevText /\ call.md.source # call.prevMd.source) =>
            call.fp # call.prevFp
        /\ (/\ ~Truthy(call.md.source) /\ ~Truthy(call.md.file_path)
            /\ ~Truthy(call.prevMd.source) /\ ~Truthy(call.prevMd.file_path)
            /\ call.text # call.prevText) =>
            call.fp # call.prevFp

\* C16 amended: any two chunks with identical text, the same raw_id and
\* different sources (the source being the file_path when the source field is
\* empty or absent) receive different fingerprints, and any two chunks whose
\* source is empty or absent and whose file_path is absent receive different
\* fingerprints when their texts differ.
C16_ContentAndSourceAmended ==
    TwoFingerprints =>
        /\ (/\ call.text = call.prevText
            /\ call.md.raw_id = call.prevMd.raw_id
            /\ SourceOf(call.md) # SourceOf(call.prevMd)) =>
            call.fp # call.prevFp
        /\ (/\ SourceOf(call.md) = None /\ SourceOf(call.prevMd) = None
            /\ call.text # call.prevText) =>
            call.fp # call.prevFp

\* C16 witness: two chunks of the same text from the sources "f" and "f:"
C16_Witness ==
    /\ TwoFingerprints
    /\ call.text = call.prevText
    /\ call.md.raw_id = None /\ call.prevMd.raw_id = None
    /\ call.prevMd.source = <<"f">>
    /\ call.md.source = <<"f", ":">>
    /\ call.fp = <<"f", ":", ":", ":">>
    /\ call.prevFp = <<"f", ":", ":">>

\* the fingerprint as C17 gives it: source (or file_path) + "::" + raw_id when
\* a source is present, that is a non-empty source or else a file_path, and
\* the SHA-256 hex digest of the text otherwise
ExpectedFingerprint(text, md) ==
    LET rid == IF md.raw_id = None THEN <<>> ELSE md.raw_id
    IN  CASE Truthy(md.source)   -> md.source \o <<":", ":">> \o rid
          [] md.file_path # None -> md.file_path \o <<":", ":">> \o rid
          [] OTHER               -> Sha256Hex(text)

C18_CrashWindow ==
    (/\ call.op = "add_documents"
     /\ call.ext = "crash after save_local"
     /\ call.preFm.vs.loaded
     /\ call.docs # <<>>
     /\ Fingerprints(call.docs) \cap call.preFm.meta.rows = {}) =>
        /\ Len(disk.store) > Len(call.preDisk.store)
        /\ disk.meta = call.preDisk.meta
        /\ ~(Fingerprints(disk.store) \subseteq LoadMeta(disk).rows)
        /\ LET later == load_or_create(NewReceiver(disk), disk, NoArg, NoArg, "ok")
           IN  later.disk = disk /\ later.fm.meta = LoadMeta(disk)

\* C19: a load_retriever_from_faiss that succeeds without custom
\* search_kwargs binds a retriever of the requested search_type and k that,
\* for "mmr", also carries the caller's fetch_k and lambda_mult and, for any
\* other search_type, carries k alone; custom search_kwargs replace the
\* configuration.
C19_SearchConfig ==
    (call.op = "load_retriever_from_faiss" /\ call.out.kind = "return") =>
        LET kw == rag.retriever.kw
        IN  /\ rag.retriever.search_type = call.search_type
            /\ IF call.custom # NoKw
               THEN kw = call.custom
               ELSE /\ kw.k = "k"
                    /\ IF call.search_type = "mmr"
                       THEN kw.fetch_k = "fetch_k" /\ kw.lambda_mult = "lambda_mult"
                       ELSE kw.fetch_k = "absent" /\ kw.lambda_mult = "absent"

\* C20: after a build_retriver, with no external call failing, of a batch of
\* .txt and .pdf files into a session whose index directory was empty, the
\* index holds each chunk of the batch exactly once and the ledger holds the
\* chunks' fingerprints (one file of one chunk: 1 stored chunk, 1
\* fingerprint); the same holds of the manager part of build_retriver run on
\* the chunks.
C20_NoChunkTwice ==
    /\ (C13_Case /\ call.preDisk = EmptyDir) =>
        LET d == tree.index[ing[call.slot].faiss_dir]
            chunks == RecordsOf([i \in 1..Len(call.uploaded) |->
                                    SavedPath(ing[call.slot].temp_dir, call.uploaded[i])])
        IN  /\ call.out.kind = "return"
            /\ d.store = chunks
            /\ d.meta.exists /\ d.meta.rows = Fingerprints(chunks)
    /\ (call.op = "ingest" /\ call.ext = "ok" /\ call.preDisk = EmptyDir) =>
        LET d == tree.index[ing[call.slot].faiss_dir]
        IN  /\ call.out.kind = "return"
            /\ d.store = call.docs
            /\ d.meta.exists /\ d.meta.rows = Fingerprints(call.docs)


\* the chunks of a sequence are all held by the persisted index d
AllStored(chunks, d) ==
    \A i \in 1..Len(chunks) : \E j \in 1..Len(d.store) : d.store[j] = chunks[i]

\* C21: every build_retriver of supported files with no external call
\* failing, into an empty index directory or one that already holds an index,
\* succeeds and leaves every chunk of its files in the persisted index; the
\* same holds of the manager part of build_retriver run on the chunks of a
\* file, two chunks sharing one source included.
C21_IngestionComplete ==
    /\ C13_Case =>
        LET d == tree.index[ing[call.slot].faiss_dir]
            chunks == RecordsOf([i \in 1..Len(call.uploaded) |->
                                    SavedPath(ing[call.slot].temp_dir, call.uploaded[i])])
        IN  /\ call.out.kind = "return"
            /\ AllStored(chunks, d)
    /\ (call.op = "ingest" /\ call.ext = "ok") =>
        LET d == tree.index[ing[call.slot].faiss_dir]
        IN  /\ call.out.kind = "return"
            /\ AllStored(call.docs, d)


\* the external failures of add_documents' append and save (lines 184-186)
AddFailures == {"add fails", "save wrote faiss", "save wrote none"}

\* C22: when add_documents is called on a loaded manager with chunks that are
\* new to its ledger and the append or the save fails, the in-memory ledger
\* and the persisted ledger are what they were before the call, and calling
\* add_documents again with the same chunks on the same manager appends them
\* and returns their number.
C22_FailedAddKeepsLedger ==
    LET old == call.preFm.meta.rows
        IsNew(c) == _fingerprint(c.page_content, c.metadata) \notin old
        new == SelectSeq(call.docs, IsNew)
    IN  (/\ call.op = "add_documents"
         /\ call.preFm.vs.loaded
         /\ call.ext \in AddFailures
         /\ new # <<>>) =>
            LET retry == add_documents(fm, disk, call.docs, "ok")
            IN  /\ fm.meta = call.preFm.meta
                /\ disk.meta = call.preDisk.meta
                /\ retry.out.kind = "return"
                /\ AllStored(new, retry.disk)


\* C23: when manager instances over one index directory call one at a time,
\* no call of any instance removes a chunk from the persisted index or a
\* fingerprint from the persisted ledger, and every add_documents of an
\* instance with a loaded handle returns with all its chunks in the persisted
\* index and their fingerprints in the persisted ledger.
C23_SerializedWriters ==
    call.slot \in Writers =>
        /\ AllStored(call.preDisk.store, disk)
        /\ call.preDisk.meta.rows \subseteq disk.meta.rows
        /\ (call.op = "add_documents" /\ call.preFm.vs.loaded) =>
              /\ call.out.kind = "return"
              /\ AllStored(call.docs, disk)
              /\ disk.meta.exists
              /\ Fingerprints(call.docs) \subseteq disk.meta.rows


\* C24: after a load_retriever_from_faiss that raised, the instance's
\* retriever and chain are the ones it had before the call; and in every
\* reachable state a chain is assembled only on an instance with a retriever
\* bound.
C24_FailedLoadKeepsChain ==
    /\ (call.op = "load_retriever_from_faiss" /\ call.out.kind = "raise") =>
          /\ rag.retriever = call.preRag.retriever
          /\ rag.chain = call.preRag.chain
    /\ rag.chain.built => rag.retriever.bound


\* C25: a build_retriver of supported files with no external call failing
\* splits the loaded documents with a splitter whose window is the chunk_size
\* and chunk_overlap its caller passed (1000 and 200 when the caller passed
\* none), as a direct call of _split does.
C25_ChunkingHonoured ==
    /\ C13_Case => call.window = call.chunking
    /\ (call.op = "_split" /\ call.out.kind = "return") => call.window = call.chunking

====
